---- MODULE Spec2Model ----
(***************************************************************************)
(* A model of dhai-chain: Transaction, Mempool, Block and Chain.           *)
(*                                                                         *)
(* SHA-256 is idealised as collision free: a hash value is the record      *)
(* [digest, num], where digest is the exact sequence of values fed to the  *)
(* hasher and num stands for the first 8 bytes of the output read as a     *)
(* big-endian integer (the only part of the output the code interprets).   *)
(* num is a fixed function of the digest, scaled down to Width bits.       *)
(* u64 nonces are scaled down to NonceWidth bits and wrap as in the code.  *)
(***************************************************************************)
EXTENDS Integers, Sequences, FiniteSets, TLC

VARIABLES
    blocks,              \* Chain.blocks: Vec<Block>
    current_difficulty,  \* Chain.current_difficulty: u32
    transactions,        \* Mempool.transactions: HashMap<[u8;32], Transaction>
    priority_queue,      \* Mempool.priority_queue: BinaryHeap, as its backing vector
    pc,                  \* position inside Chain::add_block, or "idle"
    new_block,           \* the local new_block of Chain::add_block
    call,                \* the last call made and what it returned: [op, ret]
    arg,                 \* the argument of the last call made on a bare Mempool
    out,                 \* what the last Mempool::get_transactions returned
    overflow_checks,     \* the build profile: are arithmetic overflow checks on
    feed                 \* the transactions a scripted caller still submits

vars == <<blocks, current_difficulty, transactions, priority_queue, pc,
          new_block, call, arg, out, overflow_checks, feed>>

(***************************************************************************)
(* Bounds of the model.                                                    *)
(***************************************************************************)
Width == 2            \* bits of the leading hash word (64 in the code)
NonceWidth == 2       \* bits of Block.nonce (64 in the code)
MaxDifficulty == 2    \* difficulties 0..MaxDifficulty, so Width itself is tried
MaxBlocks == 3        \* the chain grows to at most this many blocks
MaxTime == 1          \* the clock reads 0..MaxTime (whole seconds)
MaxTxNonce == 2       \* nonces 1..MaxTxNonce of the transactions a bare Mempool is given
MaxLimit == 3         \* limits 0..MaxLimit passed to Mempool::get_transactions
MaxSupplied == 2      \* length of a caller-supplied transaction list
MaxFeed == 11         \* transactions a scripted caller submits
MaxAddress == 2       \* addresses [0; 20]..[MaxAddress; 20] of a bare Transaction
MaxAmount == 2        \* amounts 0..MaxAmount of a bare Transaction

(***************************************************************************)
(* Program constants.                                                      *)
(***************************************************************************)
BatchLimit == 10      \* self.mempool.get_transactions(10)

Pow2(n) == 2 ^ n
Min(a, b) == IF a <= b THEN a ELSE b

(***************************************************************************)
(* Transaction                                                             *)
(***************************************************************************)
Tx(s, r, a, n) == [sender |-> s, receiver |-> r, amount |-> a, nonce |-> n]

\* validate comparing sender and receiver before it looks at the amount
ValidateSenderFirst(tx, is_genesis) ==
    IF ~is_genesis /\ tx.sender = tx.receiver THEN "SameSenderReceiver"
    ELSE IF tx.amount = 0 THEN "InvalidAmount"
    ELSE "Ok"

\* Transaction::validate
Transaction_validate(tx, is_genesis) ==
    IF tx.amount = 0 THEN "InvalidAmount"
    ELSE IF ~is_genesis /\ tx.sender = tx.receiver THEN "SameSenderReceiver"
    ELSE "Ok"

\* The bytes both hashers are fed for one transaction, in the code's order.
TxBytes(tx) == <<tx.sender, tx.receiver, tx.amount, tx.nonce>>

\* Transaction::hash: SHA-256 over sender, receiver, amount, nonce.
Transaction_hash(tx) == TxBytes(tx)

(***************************************************************************)
(* Mempool: the HashMap is a function from content hashes to transactions, *)
(* the BinaryHeap is its backing vector with the standard library's        *)
(* sift_up / sift_down / rebuild.                                          *)
(***************************************************************************)
\* PrioritizedTransaction::cmp is other.nonce.cmp(self.nonce): a <= b in heap order.
PtLe(a, b) == b.nonce <= a.nonce
PtLt(a, b) == b.nonce < a.nonce
PtGe(a, b) == PtLe(b, a)

\* positions are 0-based, as in the code; data[p + 1] is the element at p
Swap(data, p, q) ==
    [i \in 1..Len(data) |->
        IF i = p + 1 THEN data[q + 1] ELSE IF i = q + 1 THEN data[p + 1] ELSE data[i]]

\* BinaryHeap::sift_up(0, pos)
RECURSIVE SiftUp(_, _)
SiftUp(data, pos) ==
    IF pos = 0 THEN data
    ELSE LET parent == (pos - 1) \div 2 IN
         IF PtLe(data[pos + 1], data[parent + 1]) THEN data
         ELSE SiftUp(Swap(data, pos, parent), parent)

\* BinaryHeap::push
HeapPush(data, item) == SiftUp(Append(data, item), Len(data))

\* BinaryHeap::sift_down(pos)
RECURSIVE SiftDown(_, _)
SiftDown(data, pos) ==
    LET end == Len(data)
        child == 2 * pos + 1
    IN  IF end >= 2 /\ child <= end - 2
        THEN LET c == IF PtLe(data[child + 1], data[child + 2]) THEN child + 1 ELSE child
             IN  IF PtGe(data[pos + 1], data[c + 1]) THEN data
                 ELSE SiftDown(Swap(data, pos, c), c)
        ELSE IF child = end - 1 /\ PtLt(data[pos + 1], data[child + 1])
             THEN Swap(data, pos, child)
             ELSE data

\* BinaryHeap::rebuild: sift_down(n) for n = len/2 - 1 down to 0
RECURSIVE Rebuild(_, _)
Rebuild(data, n) == IF n = 0 THEN data ELSE Rebuild(SiftDown(data, n - 1), n - 1)

\* BinaryHeap::from_iter: collect into a vector, then rebuild
HeapFromVec(data) == Rebuild(data, Len(data) \div 2)

\* iter().filter(|pt| pt.0.hash() != tx_hash)
RECURSIVE FilterOut(_, _)
FilterOut(data, h) ==
    IF data = <<>> THEN <<>>
    ELSE IF Transaction_hash(Head(data)) # h
         THEN <<Head(data)>> \o FilterOut(Tail(data), h)
         ELSE FilterOut(Tail(data), h)

\* slice::sort_by_key(|tx| tx.nonce()): a stable sort
RECURSIVE InsertSorted(_, _)
InsertSorted(sorted, tx) ==
    IF sorted = <<>> THEN <<tx>>
    ELSE IF tx.nonce < Head(sorted).nonce THEN <<tx>> \o sorted
         ELSE <<Head(sorted)>> \o InsertSorted(Tail(sorted), tx)

\* the vector left in heap order, the sort dropped
KeepHeapOrder(data) == data

RECURSIVE SortByNonce(_)
SortByNonce(data) ==
    IF data = <<>> THEN <<>>
    ELSE InsertSorted(SortByNonce(SubSeq(data, 1, Len(data) - 1)), data[Len(data)])

Take(s, n) == SubSeq(s, 1, Min(n, Len(s)))

\* Mempool::new
Mempool_new == [transactions |-> [h \in {} |-> h], priority_queue |-> <<>>]

MapInsert(m, k, v) == [h \in DOMAIN m \cup {k} |-> IF h = k THEN v ELSE m[h]]
MapRemove(m, k) == [h \in DOMAIN m \ {k} |-> m[h]]

\* add_transaction without the duplicate check
AddWithoutDuplicateCheck(mp, tx) ==
    LET tx_hash == Transaction_hash(tx) IN
    IF Transaction_validate(tx, FALSE) # "Ok"
    THEN [ret |-> "InvalidTransaction", mp |-> mp]
    ELSE [ret |-> "Ok",
          mp |-> [transactions |-> MapInsert(mp.transactions, tx_hash, tx),
                  priority_queue |-> HeapPush(mp.priority_queue, tx)]]

\* add_transaction inserting before it validates
AddBeforeValidate(mp, tx) ==
    LET tx_hash == Transaction_hash(tx)
        added == [transactions |-> MapInsert(mp.transactions, tx_hash, tx),
                  priority_queue |-> HeapPush(mp.priority_queue, tx)]
    IN  IF tx_hash \in DOMAIN mp.transactions
        THEN [ret |-> "DuplicateTransaction", mp |-> mp]
        ELSE IF Transaction_validate(tx, FALSE) # "Ok"
        THEN [ret |-> "InvalidTransaction", mp |-> added]
        ELSE [ret |-> "Ok", mp |-> added]

\* add_transaction without the call of validate
AddWithoutValidation(mp, tx) ==
    LET tx_hash == Transaction_hash(tx) IN
    IF tx_hash \in DOMAIN mp.transactions
    THEN [ret |-> "DuplicateTransaction", mp |-> mp]
    ELSE [ret |-> "Ok",
          mp |-> [transactions |-> MapInsert(mp.transactions, tx_hash, tx),
                  priority_queue |-> HeapPush(mp.priority_queue, tx)]]

\* Mempool::add_transaction: the returned value and the pool it leaves
Mempool_add_transaction(mp, tx) ==
    LET tx_hash == Transaction_hash(tx) IN
    IF tx_hash \in DOMAIN mp.transactions
    THEN [ret |-> "DuplicateTransaction", mp |-> mp]
    ELSE IF Transaction_validate(tx, FALSE) # "Ok"
    THEN [ret |-> "InvalidTransaction", mp |-> mp]
    ELSE [ret |-> "Ok",
          mp |-> [transactions |-> MapInsert(mp.transactions, tx_hash, tx),
                  priority_queue |-> HeapPush(mp.priority_queue, tx)]]

\* get_transactions without the sort
GetUnsorted(mp, limit) == Take(mp.priority_queue, limit)

\* Mempool::get_transactions
Mempool_get_transactions(mp, limit) == Take(SortByNonce(mp.priority_queue), limit)

\* the iteration without the rebuild of the heap
RemoveFromMapOnly(mp, tx) ==
    [transactions |-> MapRemove(mp.transactions, Transaction_hash(tx)),
     priority_queue |-> mp.priority_queue]

\* one iteration of the loop of Mempool::remove_transactions
RemoveOne(mp, tx) ==
    LET tx_hash == Transaction_hash(tx) IN
    [transactions |-> MapRemove(mp.transactions, tx_hash),
     priority_queue |-> HeapFromVec(FilterOut(mp.priority_queue, tx_hash))]

\* remove_transactions leaving its loop after the first transaction
RemoveFirstOnly(mp, txs) == IF txs = <<>> THEN mp ELSE RemoveOne(mp, Head(txs))

\* Mempool::remove_transactions
RECURSIVE Mempool_remove_transactions(_, _)
Mempool_remove_transactions(mp, txs) ==
    IF txs = <<>> THEN mp
    ELSE Mempool_remove_transactions(RemoveOne(mp, Head(txs)), Tail(txs))

\* Mempool::contains
Mempool_contains(mp, tx) == Transaction_hash(tx) \in DOMAIN mp.transactions

\* Mempool::clear
Mempool_clear(mp) == [transactions |-> [h \in {} |-> h], priority_queue |-> <<>>]

\* Mempool::len
Mempool_len(mp) == Cardinality(DOMAIN mp.transactions)

\* Mempool::is_empty
Mempool_is_empty(mp) == DOMAIN mp.transactions = {}

(***************************************************************************)
(* Block                                                                   *)
(***************************************************************************)
\* [0; 32]
ZeroHash == [digest |-> <<>>, num |-> 0]

\* the leading word of SHA-256's output, as a fixed function of the input
TxWord(tx) == 3 * tx.sender + 5 * tx.receiver + 7 * tx.amount + 11 * tx.nonce

RECURSIVE TxsWord(_)
TxsWord(txs) == IF txs = <<>> THEN 0 ELSE TxWord(Head(txs)) + 3 * TxsWord(Tail(txs))

LeadingWord(timestamp, txs, previous_hash, nonce) ==
    (3 * timestamp + TxsWord(txs) + 5 * previous_hash.num + 7 * nonce + 3) % Pow2(Width)

\* calculate_hash leaving the nonce out of what it hashes
CalculateHashWithoutNonce(b) ==
    [digest |-> <<b.timestamp,
                  [i \in 1..Len(b.transactions) |-> TxBytes(b.transactions[i])],
                  b.previous_hash>>,
     num |-> LeadingWord(b.timestamp, b.transactions, b.previous_hash, 0)]

\* Block::calculate_hash: timestamp, every transaction's fields, previous_hash, nonce
Block_calculate_hash(b) ==
    [digest |-> <<b.timestamp,
                  [i \in 1..Len(b.transactions) |-> TxBytes(b.transactions[i])],
                  b.previous_hash,
                  b.nonce>>,
     num |-> LeadingWord(b.timestamp, b.transactions, b.previous_hash, b.nonce)]

NoBlock ==
    [timestamp |-> 0, transactions |-> <<>>, previous_hash |-> ZeroHash,
     hash |-> ZeroHash, nonce |-> 0, difficulty |-> 0]

\* Block::new returning the block with hash [0; 32], before block.calculate_hash()
BlockNewUnhashed(txs, previous_hash, difficulty, timestamp) ==
    IF txs = <<>> THEN [ret |-> "EmptyTransactions", block |-> NoBlock]
    ELSE [ret |-> "Ok",
          block |-> [timestamp |-> timestamp, transactions |-> txs,
                     previous_hash |-> previous_hash, hash |-> ZeroHash,
                     nonce |-> 0, difficulty |-> difficulty]]

\* Block::new, given the clock's reading
Block_new(txs, previous_hash, difficulty, timestamp) ==
    IF txs = <<>> THEN [ret |-> "EmptyTransactions", block |-> NoBlock]
    ELSE LET block == [timestamp |-> timestamp, transactions |-> txs,
                       previous_hash |-> previous_hash, hash |-> ZeroHash,
                       nonce |-> 0, difficulty |-> difficulty]
         IN  [ret |-> "Ok", block |-> [block EXCEPT !.hash = Block_calculate_hash(block)]]

\* 0u64.wrapping_sub(1) >> difficulty overflows when difficulty >= 64
ShiftOverflows(difficulty) == difficulty >= Width

\* the target when the shift does not panic: a release build masks the shift amount
Target(difficulty) == (Pow2(Width) - 1) \div Pow2(difficulty % Width)

MeetsTarget(hash, difficulty) == hash.num <= Target(difficulty)

\* does the loop of Block::mine stop: some nonce of the cycle meets the target
MineStops(b) ==
    \E k \in 0..(Pow2(NonceWidth) - 1) :
        MeetsTarget(Block_calculate_hash(
            [b EXCEPT !.nonce = (b.nonce + k) % Pow2(NonceWidth)]), b.difficulty)

\* the loop of Block::mine, for a block on which it stops
RECURSIVE MineLoop(_)
MineLoop(b) ==
    LET hash == Block_calculate_hash(b) IN
    IF MeetsTarget(hash, b.difficulty) THEN [b EXCEPT !.hash = hash]
    ELSE MineLoop([b EXCEPT !.nonce = (b.nonce + 1) % Pow2(NonceWidth)])

\* Block::mine
Block_mine(b) == MineLoop(b)

\* Block::has_valid_proof
Block_has_valid_proof(b) == MeetsTarget(b.hash, b.difficulty)

\* the first transaction error of the loop of Block::verify, or "Ok"
RECURSIVE FirstInvalid(_, _)
FirstInvalid(txs, is_genesis) ==
    IF txs = <<>> THEN "Ok"
    ELSE IF Transaction_validate(Head(txs), is_genesis) # "Ok"
         THEN Transaction_validate(Head(txs), is_genesis)
         ELSE FirstInvalid(Tail(txs), is_genesis)

\* verify without the comparison of the stored hash with the recomputed one
VerifyWithoutHashCheck(b, is_genesis) ==
    IF b.transactions = <<>> THEN "EmptyTransactions"
    ELSE IF FirstInvalid(b.transactions, is_genesis) # "Ok"
         THEN FirstInvalid(b.transactions, is_genesis)
    ELSE IF ShiftOverflows(b.difficulty) /\ overflow_checks THEN "Panic"
    ELSE IF ~Block_has_valid_proof(b) THEN "InvalidProofOfWork"
    ELSE "Ok"

\* Block::verify ("Panic": the shift of has_valid_proof overflows in a checked build)
Block_verify(b, is_genesis) ==
    IF b.transactions = <<>> THEN "EmptyTransactions"
    ELSE IF FirstInvalid(b.transactions, is_genesis) # "Ok"
         THEN FirstInvalid(b.transactions, is_genesis)
    ELSE IF b.hash # Block_calculate_hash(b) THEN "InvalidHash"
    ELSE IF ShiftOverflows(b.difficulty) /\ overflow_checks THEN "Panic"
    ELSE IF ~Block_has_valid_proof(b) THEN "InvalidProofOfWork"
    ELSE "Ok"

\* how a call of Block::mine ends: it returns, panics on the shift, or never returns
MineOutcome(b) ==
    IF ShiftOverflows(b.difficulty) /\ overflow_checks THEN "panicked"
    ELSE IF ~MineStops(b) THEN "hung"
    ELSE "done"

(***************************************************************************)
(* Chain                                                                   *)
(***************************************************************************)
Mempool == [transactions |-> transactions, priority_queue |-> priority_queue]

Last(s) == s[Len(s)]

\* Transaction::new(Address::new([0; 20]), Address::new([0; 20]), 1, 0)
DefaultGenesisTx == Tx(0, 0, 1, 0)

\* the transactions a caller submits to the chain: nonces 5 and 3, a zero amount,
\* a sender that is the receiver
TxUniverse == {Tx(1, 2, 1, 5), Tx(1, 2, 1, 3), Tx(1, 2, 0, 1), Tx(1, 1, 1, 1)}

\* the genesis transactions a caller passes to Chain::new
SuppliedGenesis == {Tx(1, 1, 0, 0), Tx(1, 2, 1, 0)}

\* the lists a caller passes to add_block_with_transactions
SuppliedTxs == {Tx(1, 2, 1, 3), Tx(1, 2, 0, 1), Tx(1, 1, 1, 1)}

SeqsUpTo(S, n) == UNION {[1..k -> S] : k \in 0..n}

Call(op, ret) == [op |-> op, ret |-> ret]

\* the hash of the first block in place of the last
HeadHash(bs) == bs[1].hash

\* previous_block.hash() of self.blocks.last()
TailHash(bs) == Last(bs).hash

\* Chain::new building its genesis block at difficulty 1 whatever it is given
GenesisAtDifficultyOne(difficulty, genesis_tx) ==
    <<Block_mine(Block_new(<<genesis_tx>>, ZeroHash, 1, 0).block)>>

\* Chain::new(difficulty, genesis_tx): the blocks of the chain it returns, the
\* clock reading 0
GenesisChain(difficulty, genesis_tx) ==
    <<Block_mine(Block_new(<<genesis_tx>>, ZeroHash, difficulty, 0).block)>>

\* how the mining of Chain::new ends
GenesisOutcome(difficulty, genesis_tx, checks) ==
    IF ShiftOverflows(difficulty) /\ checks THEN "panicked"
    ELSE IF ~MineStops(Block_new(<<genesis_tx>>, ZeroHash, difficulty, 0).block) THEN "hung"
    ELSE "done"

\* Chain::new(difficulty, Some(genesis_tx)) in a build with or without overflow checks
Chain_new(difficulty, genesis_tx, checks) ==
    LET outcome == GenesisOutcome(difficulty, genesis_tx, checks) IN
    /\ overflow_checks = checks
    /\ current_difficulty = difficulty
    /\ transactions = Mempool_new.transactions
    /\ priority_queue = Mempool_new.priority_queue
    /\ new_block = NoBlock
    /\ call = Call("new", IF outcome = "done" THEN "Ok" ELSE outcome)
    /\ arg = <<>>
    /\ out = <<>>
    /\ pc = IF outcome = "done" THEN "idle" ELSE outcome
    /\ blocks = IF outcome = "done" THEN GenesisChain(difficulty, genesis_tx) ELSE <<>>

\* the build profiles that differ on this difficulty
Profiles(difficulty) == IF ShiftOverflows(difficulty) THEN BOOLEAN ELSE {FALSE}

\* Chain::new(difficulty, None)
Init ==
    /\ feed = <<>>
    /\ \E difficulty \in 0..MaxDifficulty :
          \E checks \in Profiles(difficulty) :
            Chain_new(difficulty, DefaultGenesisTx, checks)

\* Chain::new(difficulty, genesis_tx) with or without a genesis transaction
InitAnyGenesis ==
    /\ feed = <<>>
    /\ \E difficulty \in 0..MaxDifficulty :
          \E checks \in Profiles(difficulty) :
            \E genesis_tx \in {DefaultGenesisTx} \cup SuppliedGenesis :
                Chain_new(difficulty, genesis_tx, checks)

\* Chain::submit_transaction
Chain_submit_transaction(tx) ==
    /\ pc = "idle"
    /\ LET r == Mempool_add_transaction(Mempool, tx) IN
        /\ transactions' = r.mp.transactions
        /\ priority_queue' = r.mp.priority_queue
        /\ call' = Call("submit_transaction", r.ret)
    /\ UNCHANGED <<blocks, current_difficulty, pc, new_block, arg, out, overflow_checks>>

SubmitTransaction ==
    /\ \E tx \in TxUniverse : Chain_submit_transaction(tx)
    /\ UNCHANGED feed

\* OffsetDateTime::now_utc() in Block::new: the clock does not run backwards
ClockReadings == {t \in 0..MaxTime : blocks = <<>> \/ t >= Last(blocks).timestamp}

\* add_block without its early return
NeverEmptyBatch(txs) == FALSE

\* transactions.is_empty() in Chain::add_block
IsEmptyBatch(txs) == txs = <<>>

\* Chain::add_block up to and including self.mempool.remove_transactions: what it
\* returns ("Running" when it goes on to push), the pool it leaves, the block it holds
AddBlockStep(bs, mp, difficulty, now) ==
    IF bs = <<>> THEN [ret |-> "EmptyChain", mp |-> mp, block |-> NoBlock]
    ELSE LET txs == Mempool_get_transactions(mp, BatchLimit) IN
         IF IsEmptyBatch(txs) THEN [ret |-> "Ok", mp |-> mp, block |-> NoBlock]
         ELSE LET made == Block_new(txs, TailHash(bs), difficulty, now) IN
              IF made.ret # "Ok" THEN [ret |-> made.ret, mp |-> mp, block |-> NoBlock]
              ELSE IF MineOutcome(made.block) # "done"
                   THEN [ret |-> MineOutcome(made.block), mp |-> mp, block |-> NoBlock]
              ELSE LET mined == Block_mine(made.block)
                       verdict == Block_verify(mined, FALSE)
                   IN  IF verdict # "Ok" THEN [ret |-> verdict, mp |-> mp, block |-> NoBlock]
                       ELSE [ret |-> "Running",
                             mp |-> Mempool_remove_transactions(mp, txs),
                             block |-> mined]

\* where a call that returned ret leaves the caller
After(ret) ==
    IF ret \in {"panicked", "hung"} THEN ret
    ELSE IF ret = "Running" THEN "add_block_push"
    ELSE "idle"

Chain_add_block(now) ==
    /\ pc = "idle"
    /\ Len(blocks) < MaxBlocks
    /\ LET r == AddBlockStep(blocks, Mempool, current_difficulty, now) IN
        /\ transactions' = r.mp.transactions
        /\ priority_queue' = r.mp.priority_queue
        /\ new_block' = r.block
        /\ call' = Call("add_block", r.ret)
        /\ pc' = After(r.ret)
    /\ UNCHANGED <<blocks, current_difficulty, arg, out, overflow_checks, feed>>

AddBlock == \E clock \in ClockReadings : Chain_add_block(clock)

\* the push writing the new block over the tail block
AddBlockPushOverTail ==
    /\ pc = "add_block_push"
    /\ blocks' = [blocks EXCEPT ![Len(blocks)] = new_block]
    /\ new_block' = NoBlock
    /\ pc' = "idle"
    /\ call' = Call("add_block", "Ok")
    /\ UNCHANGED <<current_difficulty, transactions, priority_queue, arg, out,
                   overflow_checks, feed>>

\* Chain::add_block: self.blocks.push(new_block); Ok(())
AddBlockPush ==
    /\ pc = "add_block_push"
    /\ blocks' = Append(blocks, new_block)
    /\ new_block' = NoBlock
    /\ pc' = "idle"
    /\ call' = Call("add_block", "Ok")
    /\ UNCHANGED <<current_difficulty, transactions, priority_queue, arg, out,
                   overflow_checks, feed>>

\* add_block_with_transactions pushing the block before it verifies it
AddWithTransactionsPushFirst(bs, mp, difficulty, txs, now) ==
    IF bs = <<>> THEN [ret |-> "EmptyChain", blocks |-> bs, mp |-> mp]
    ELSE LET made == Block_new(txs, TailHash(bs), difficulty, now) IN
         IF made.ret # "Ok" THEN [ret |-> made.ret, blocks |-> bs, mp |-> mp]
         ELSE IF MineOutcome(made.block) # "done"
              THEN [ret |-> MineOutcome(made.block), blocks |-> bs, mp |-> mp]
         ELSE LET mined == Block_mine(made.block) IN
              [ret |-> Block_verify(mined, FALSE), blocks |-> Append(bs, mined), mp |-> mp]

\* add_block_with_transactions evicting what it included, as add_block does
AddWithTransactionsEvicting(bs, mp, difficulty, txs, now) ==
    IF bs = <<>> THEN [ret |-> "EmptyChain", blocks |-> bs, mp |-> mp]
    ELSE LET made == Block_new(txs, TailHash(bs), difficulty, now) IN
         IF made.ret # "Ok" THEN [ret |-> made.ret, blocks |-> bs, mp |-> mp]
         ELSE IF MineOutcome(made.block) # "done"
              THEN [ret |-> MineOutcome(made.block), blocks |-> bs, mp |-> mp]
         ELSE LET mined == Block_mine(made.block)
                  verdict == Block_verify(mined, FALSE)
              IN  IF verdict # "Ok" THEN [ret |-> verdict, blocks |-> bs, mp |-> mp]
                  ELSE [ret |-> "Ok", blocks |-> Append(bs, mined),
                        mp |-> Mempool_remove_transactions(mp, txs)]

\* Chain::add_block_with_transactions: what it returns, the blocks and the pool it leaves
AddWithTransactionsStep(bs, mp, difficulty, txs, now) ==
    IF bs = <<>> THEN [ret |-> "EmptyChain", blocks |-> bs, mp |-> mp]
    ELSE LET made == Block_new(txs, TailHash(bs), difficulty, now) IN
         IF made.ret # "Ok" THEN [ret |-> made.ret, blocks |-> bs, mp |-> mp]
         ELSE IF MineOutcome(made.block) # "done"
              THEN [ret |-> MineOutcome(made.block), blocks |-> bs, mp |-> mp]
         ELSE LET mined == Block_mine(made.block)
                  verdict == Block_verify(mined, FALSE)
              IN  IF verdict # "Ok" THEN [ret |-> verdict, blocks |-> bs, mp |-> mp]
                  ELSE [ret |-> "Ok", blocks |-> Append(bs, mined), mp |-> mp]

Chain_add_block_with_transactions(txs, now) ==
    /\ pc = "idle"
    /\ Len(blocks) < MaxBlocks
    /\ LET r == AddWithTransactionsStep(blocks, Mempool, current_difficulty, txs, now) IN
        /\ blocks' = r.blocks
        /\ transactions' = r.mp.transactions
        /\ priority_queue' = r.mp.priority_queue
        /\ call' = Call("add_block_with_transactions", r.ret)
        /\ pc' = After(r.ret)
    /\ UNCHANGED <<current_difficulty, new_block, arg, out, overflow_checks, feed>>

AddBlockWithTransactions ==
    \E txs \in SeqsUpTo(SuppliedTxs, MaxSupplied), clock \in ClockReadings :
        Chain_add_block_with_transactions(txs, clock)

\* the loop of Chain::verify over blocks.windows(2), from the pair ending at i
RECURSIVE VerifyLinks(_, _)
VerifyLinks(bs, i) ==
    IF i > Len(bs) THEN "Ok"
    ELSE IF bs[i].previous_hash # bs[i - 1].hash THEN "InvalidBlockLink"
    ELSE IF Block_verify(bs[i], FALSE) # "Ok" THEN Block_verify(bs[i], FALSE)
    ELSE VerifyLinks(bs, i + 1)

\* verify checking the genesis block itself before its previous_hash
VerifyGenesisBlockFirst(bs) ==
    IF bs = <<>> THEN "EmptyChain"
    ELSE IF Block_verify(bs[1], TRUE) # "Ok" THEN Block_verify(bs[1], TRUE)
    ELSE IF bs[1].previous_hash # ZeroHash THEN "InvalidGenesis"
    ELSE VerifyLinks(bs, 2)

\* Chain::verify
Chain_verify(bs) ==
    IF bs = <<>> THEN "EmptyChain"
    ELSE IF bs[1].previous_hash # ZeroHash THEN "InvalidGenesis"
    ELSE IF Block_verify(bs[1], TRUE) # "Ok" THEN Block_verify(bs[1], TRUE)
    ELSE VerifyLinks(bs, 2)

\* Chain::len
Chain_len == Len(blocks)

Next == SubmitTransaction \/ AddBlock \/ AddBlockPush \/ AddBlockWithTransactions

\* a chain over the default genesis transaction and its callers
Spec == Init /\ [][Next]_vars

\* a chain over any genesis transaction and its callers
SpecAnyGenesis == InitAnyGenesis /\ [][Next]_vars

\* a chain whose callers only submit transactions and call add_block
NextPool == SubmitTransaction \/ AddBlock \/ AddBlockPush

SpecPool == Init /\ [][NextPool]_vars

(***************************************************************************)
(* A bare Mempool and its callers                                          *)
(***************************************************************************)
\* the transactions a bare Mempool is given: equal nonces from two senders, a zero
\* amount, a sender that is the receiver, both
PoolTxs ==
    {Tx(1, 2, 1, n) : n \in 1..MaxTxNonce} \cup {Tx(2, 1, 1, n) : n \in 1..MaxTxNonce}
        \cup {Tx(1, 2, 0, 1), Tx(1, 1, 1, 1), Tx(1, 1, 0, 1)}

\* the lists a caller passes to Mempool::remove_transactions
EvictTxs == {Tx(1, 2, 1, 1), Tx(2, 1, 1, 1), Tx(1, 2, 1, MaxTxNonce)}

\* Mempool::new()
InitMempool ==
    /\ transactions = Mempool_new.transactions
    /\ priority_queue = Mempool_new.priority_queue
    /\ call = Call("new", "Ok")
    /\ arg = <<>>
    /\ out = <<>>
    /\ blocks = <<>>
    /\ current_difficulty = 0
    /\ pc = "idle"
    /\ new_block = NoBlock
    /\ overflow_checks = FALSE
    /\ feed = <<>>

\* a call on the bare Mempool that leaves the pool mp
MempoolCall(op, args, ret, mp, result) ==
    /\ transactions' = mp.transactions
    /\ priority_queue' = mp.priority_queue
    /\ call' = Call(op, ret)
    /\ arg' = args
    /\ out' = result
    /\ UNCHANGED <<blocks, current_difficulty, pc, new_block, overflow_checks, feed>>

\* Mempool::add_transaction
AddTransaction ==
    \E tx \in PoolTxs :
        LET r == Mempool_add_transaction(Mempool, tx) IN
        MempoolCall("add_transaction", <<tx>>, r.ret, r.mp, <<>>)

\* Mempool::remove_transactions
RemoveTransactions ==
    \E txs \in SeqsUpTo(EvictTxs, MaxSupplied) :
        MempoolCall("remove_transactions", txs, "Ok",
                    Mempool_remove_transactions(Mempool, txs), <<>>)

\* Mempool::clear
Clear == MempoolCall("clear", <<>>, "Ok", Mempool_clear(Mempool), <<>>)

\* Mempool::get_transactions
GetTransactions ==
    \E limit \in 0..MaxLimit :
        MempoolCall("get_transactions", <<limit>>, "Ok", Mempool,
                    Mempool_get_transactions(Mempool, limit))

NextMempool == AddTransaction \/ RemoveTransactions \/ Clear \/ GetTransactions

SpecMempool == InitMempool /\ [][NextMempool]_vars

(***************************************************************************)
(* A chain whose caller submits a fixed list of transactions, in order     *)
(***************************************************************************)
FeedTx(n) == Tx(1, 2, 1, n)

\* nonces ascending, descending, and alternating between the two ends
Feeds ==
    {[i \in 1..MaxFeed |-> FeedTx(i)],
     [i \in 1..MaxFeed |-> FeedTx(MaxFeed + 1 - i)],
     [i \in 1..MaxFeed |->
        FeedTx(IF i % 2 = 1 THEN (i + 1) \div 2 ELSE MaxFeed + 1 - (i \div 2))]}

InitFeed ==
    /\ feed \in Feeds
    /\ \E difficulty \in 0..MaxDifficulty :
          \E checks \in Profiles(difficulty) :
            Chain_new(difficulty, DefaultGenesisTx, checks)

SubmitFromFeed ==
    /\ feed # <<>>
    /\ Chain_submit_transaction(Head(feed))
    /\ feed' = Tail(feed)

NextFeed == SubmitFromFeed \/ AddBlock \/ AddBlockPush

SpecFeed == InitFeed /\ [][NextFeed]_vars

(***************************************************************************)
(* A bare Block and its callers: construction, mining, verification, and   *)
(* one write to a field from outside, as the crate's tests make            *)
(***************************************************************************)
\* the transactions a caller builds blocks from: two valid ones, a zero amount, a
\* sender that is the receiver
BlockTxs == {Tx(1, 2, 1, 1), Tx(3, 4, 2, 2), Tx(1, 2, 0, 1), Tx(1, 1, 1, 1)}

\* [1; 32]
OnesHash == [digest |-> <<1>>, num |-> 1]

\* the previous hashes a caller passes: [0; 32] and [1; 32]
PreviousHashes == {ZeroHash, OnesHash}

\* no Block yet, in a build with or without overflow checks
InitBlock ==
    /\ new_block = NoBlock
    /\ pc = "no_block"
    /\ overflow_checks \in BOOLEAN
    /\ call = Call("none", "Ok")
    /\ arg = <<>>
    /\ out = <<>>
    /\ blocks = <<>>
    /\ current_difficulty = 0
    /\ transactions = Mempool_new.transactions
    /\ priority_queue = Mempool_new.priority_queue
    /\ feed = <<>>

\* a call on the bare Block that leaves the block b and the caller at position at
BlockCall(op, args, ret, b, at) ==
    /\ new_block' = b
    /\ call' = Call(op, ret)
    /\ arg' = args
    /\ pc' = at
    /\ UNCHANGED <<blocks, current_difficulty, transactions, priority_queue, out,
                   overflow_checks, feed>>

\* Block::new(transactions, previous_hash, difficulty)
BlockNew ==
    /\ pc = "no_block"
    /\ \E txs \in SeqsUpTo(BlockTxs, MaxSupplied), previous_hash \in PreviousHashes,
          difficulty \in 0..MaxDifficulty, now \in 0..MaxTime :
            LET r == Block_new(txs, previous_hash, difficulty, now) IN
            BlockCall("Block::new", <<txs, previous_hash, difficulty>>, r.ret,
                      IF r.ret = "Ok" THEN r.block ELSE new_block,
                      IF r.ret = "Ok" THEN "idle" ELSE pc)

\* block.mine()
BlockMine ==
    /\ pc \in {"idle", "tampered"}
    /\ LET outcome == MineOutcome(new_block) IN
        BlockCall("mine", <<>>, outcome,
                  IF outcome = "done" THEN Block_mine(new_block) ELSE new_block,
                  IF outcome = "done" THEN pc ELSE outcome)

\* block.verify(is_genesis)
BlockVerify ==
    /\ pc \in {"idle", "tampered"}
    /\ \E is_genesis \in BOOLEAN :
        LET verdict == Block_verify(new_block, is_genesis) IN
        BlockCall("verify", <<is_genesis>>, verdict, new_block,
                  IF verdict = "Panic" THEN "panicked" ELSE pc)

\* the vectors the tests put in place of block.transactions: one transaction
\* replaced (transactions[0] = ...), or the vector replaced by a shorter one
\* (std::mem::replace, set_transactions_for_testing)
TamperedLists(txs) ==
    ({[txs EXCEPT ![i] = t] : i \in 1..Len(txs), t \in BlockTxs}
        \cup {<<t>> : t \in BlockTxs} \cup {<<>>}) \ {txs}

\* block.transactions = ...
TamperTransactions ==
    /\ pc = "idle"
    /\ \E txs \in TamperedLists(new_block.transactions) :
        BlockCall("set_transactions", <<>>, "Ok",
                  [new_block EXCEPT !.transactions = txs], "tampered")

\* block.previous_hash = ...
TamperPreviousHash ==
    /\ pc = "idle"
    /\ \E h \in PreviousHashes \ {new_block.previous_hash} :
        BlockCall("set_previous_hash", <<>>, "Ok",
                  [new_block EXCEPT !.previous_hash = h], "tampered")

\* block.nonce = ...
TamperNonce ==
    /\ pc = "idle"
    /\ \E n \in (0..(Pow2(NonceWidth) - 1)) \ {new_block.nonce} :
        BlockCall("set_nonce", <<>>, "Ok", [new_block EXCEPT !.nonce = n], "tampered")

NextBlock ==
    \/ BlockNew
    \/ BlockMine
    \/ BlockVerify
    \/ TamperTransactions
    \/ TamperPreviousHash
    \/ TamperNonce

SpecBlock == InitBlock /\ [][NextBlock]_vars

(***************************************************************************)
(* A bare Transaction and its callers                                      *)
(***************************************************************************)
\* Transaction::new(sender, receiver, amount, nonce)
InitTransaction ==
    /\ \E sender \in 0..MaxAddress, receiver \in 0..MaxAddress,
          amount \in 0..MaxAmount, nonce \in 0..MaxTxNonce :
            arg = <<Tx(sender, receiver, amount, nonce)>>
    /\ call = Call("Transaction::new", "Ok")
    /\ pc = "idle"
    /\ out = <<>>
    /\ blocks = <<>>
    /\ current_difficulty = 0
    /\ transactions = Mempool_new.transactions
    /\ priority_queue = Mempool_new.priority_queue
    /\ new_block = NoBlock
    /\ overflow_checks = FALSE
    /\ feed = <<>>

\* transaction.validate(is_genesis)
Validate ==
    \E is_genesis \in BOOLEAN :
        /\ call' = Call("validate", Transaction_validate(arg[1], is_genesis))
        /\ arg' = <<arg[1], is_genesis>>
        /\ UNCHANGED <<blocks, current_difficulty, transactions, priority_queue, pc,
                       new_block, out, overflow_checks, feed>>

NextTransaction == Validate

SpecTransaction == InitTransaction /\ [][NextTransaction]_vars

(***************************************************************************)
(* A chain, its callers, and one write to chain.blocks from outside, as    *)
(* the crate's tests make                                                  *)
(***************************************************************************)
\* Block::set_transactions_for_testing
Block_set_transactions_for_testing(b, txs) == [b EXCEPT !.transactions = txs]

\* a write to chain.blocks that leaves the blocks bs
ChainWrite(op, args, bs) ==
    /\ blocks' = bs
    /\ call' = Call(op, "Ok")
    /\ arg' = args
    /\ pc' = "tampered"
    /\ UNCHANGED <<current_difficulty, transactions, priority_queue, new_block, out,
                   overflow_checks, feed>>

\* chain.blocks.clear()
ClearBlocks == pc = "idle" /\ ChainWrite("clear_blocks", <<>>, <<>>)

\* chain.blocks.push(Block::new(vec![tx], previous_hash, difficulty).unwrap()): a
\* block that was not mined, on the tail's hash or on another one
PushBlock ==
    /\ pc = "idle"
    /\ \E tx \in SuppliedTxs, previous_hash \in PreviousHashes \cup {TailHash(blocks)},
          now \in ClockReadings :
        ChainWrite("push_block", <<>>,
                   Append(blocks,
                          Block_new(<<tx>>, previous_hash, current_difficulty, now).block))

\* chain.blocks[i].set_transactions_for_testing(txs), txs not what the block holds
SetBlockTransactions ==
    /\ pc = "idle"
    /\ \E i \in 1..Len(blocks) :
        \E txs \in TamperedLists(blocks[i].transactions) :
            ChainWrite("set_transactions", <<i>>,
                       [blocks EXCEPT ![i] = Block_set_transactions_for_testing(@, txs)])

\* chain.blocks[0].previous_hash = [1; 32]
SetGenesisPreviousHash ==
    /\ pc = "idle"
    /\ ChainWrite("set_genesis_previous_hash", <<>>,
               [blocks EXCEPT ![1].previous_hash = OnesHash])

NextTamper ==
    \/ Next
    \/ ClearBlocks
    \/ PushBlock
    \/ SetBlockTransactions
    \/ SetGenesisPreviousHash

SpecTamper == Init /\ [][NextTamper]_vars

(***************************************************************************)
(* Properties                                                              *)
(***************************************************************************)
\* the transactions in the hash-keyed map
Pending == {transactions[h] : h \in DOMAIN transactions}

\* the pool a step leaves
MempoolAfter == [transactions |-> transactions', priority_queue |-> priority_queue']

SeqSet(s) == {s[i] : i \in 1..Len(s)}

Ascending(s) == \A i \in 1..(Len(s) - 1) : s[i].nonce <= s[i + 1].nonce

Errors ==
    {"EmptyChain", "InvalidGenesis", "InvalidBlockLink", "EmptyTransactions",
     "InvalidHash", "InvalidProofOfWork", "InvalidAmount", "SameSenderReceiver",
     "DuplicateTransaction", "InvalidTransaction"}

\* C1: over the default genesis transaction, at every difficulty and after every
\* sequence of submit_transaction, add_block and add_block_with_transactions calls,
\* failed or not, Chain::verify returns Ok: the chain is non-empty, its first block
\* has the zero previous_hash and verifies as genesis, every later block links to
\* the hash of the block before it and verifies strictly.
C1_ChainAlwaysVerifies ==
    pc \in {"idle", "add_block_push"} =>
        /\ Chain_verify(blocks) = "Ok"
        /\ blocks # <<>>
        /\ blocks[1].previous_hash = ZeroHash
        /\ Block_verify(blocks[1], TRUE) = "Ok"
        /\ \A i \in 2..Len(blocks) :
            /\ blocks[i].previous_hash = blocks[i - 1].hash
            /\ Block_verify(blocks[i], FALSE) = "Ok"

\* a chain of three blocks, the last one mined past nonce 0, after a failed call
C1_Witness ==
    /\ pc = "idle"
    /\ Len(blocks) = 3
    /\ blocks[3].nonce > 0
    /\ call.ret \in Errors
    /\ Chain_verify(blocks) = "Ok"

\* C2: every chain Chain::new returns, over the default or over any supplied
\* genesis transaction, has exactly the genesis block, with the zero
\* previous_hash, and passes Chain::verify.
C2_FreshChainVerifies ==
    (call.op = "new" /\ call.ret = "Ok") =>
        /\ Len(blocks) = 1
        /\ blocks[1].previous_hash = ZeroHash
        /\ Chain_verify(blocks) = "Ok"

\* C3: add_block on a pool of n >= 1 transactions builds one block of the
\* min(n, 10) pending transactions of lowest nonce, in ascending nonce order, on
\* the hash of the tail block, and appends it; it removes exactly those
\* transactions from the pool.
C3_Step ==
    /\ (pc = "idle" /\ call'.op = "add_block" /\ ~Mempool_is_empty(Mempool)) =>
        LET batch == new_block'.transactions IN
        /\ pc' = "add_block_push"
        /\ Len(batch) = Min(Mempool_len(Mempool), BatchLimit)
        /\ Ascending(batch)
        /\ SeqSet(batch) \subseteq Pending
        /\ Cardinality(SeqSet(batch)) = Len(batch)
        /\ \A t \in Pending \ SeqSet(batch) : \A u \in SeqSet(batch) : u.nonce <= t.nonce
        /\ new_block'.previous_hash = Last(blocks).hash
        /\ Pending' = Pending \ SeqSet(batch)
        /\ SeqSet(priority_queue') = Pending \ SeqSet(batch)
        /\ blocks' = blocks
    /\ pc = "add_block_push" =>
        /\ blocks' = Append(blocks, new_block)
        /\ Len(blocks') = Len(blocks) + 1
        /\ UNCHANGED <<transactions, priority_queue>>
        /\ call' = Call("add_block", "Ok")
        /\ pc' = "idle"

C3_AddBlockTakesLowestNonces == [][C3_Step]_vars

\* add_block has appended a block of exactly 10 transactions and left one pending
C3_Witness ==
    /\ pc = "idle"
    /\ call = Call("add_block", "Ok")
    /\ Len(Last(blocks).transactions) = BatchLimit
    /\ Ascending(Last(blocks).transactions)
    /\ ~Mempool_is_empty(Mempool)

\* C4: add_block on an empty pool returns Ok and changes neither the blocks nor
\* the pool.
C4_Step ==
    (pc = "idle" /\ call'.op = "add_block" /\ Mempool_is_empty(Mempool)) =>
        /\ call'.ret = "Ok"
        /\ pc' = "idle"
        /\ UNCHANGED <<blocks, transactions, priority_queue>>

C4_EmptyPoolIsNoOp == [][C4_Step]_vars

\* add_block has returned Ok on the genesis-only chain, so it appended nothing
C4_Witness ==
    /\ call = Call("add_block", "Ok")
    /\ Len(blocks) = 1
    /\ Mempool_is_empty(Mempool)

\* C5: when add_block or add_block_with_transactions returns an error, the blocks
\* and the pool are what they were before the call.
C5_Step ==
    (pc = "idle" /\ call'.op \in {"add_block", "add_block_with_transactions"}
        /\ call'.ret \in Errors) =>
            UNCHANGED <<blocks, transactions, priority_queue>>

C5_FailedAddChangesNothing == [][C5_Step]_vars

\* add_block_with_transactions has failed on a transaction while one was pending
C5_Witness ==
    /\ call.op = "add_block_with_transactions"
    /\ call.ret \in {"InvalidAmount", "SameSenderReceiver"}
    /\ ~Mempool_is_empty(Mempool)

\* C6: add_block is never at a point where the batch is already out of the pool
\* and the new block is not yet among the blocks.
C6_EvictOnlyAfterAppend ==
    ~ /\ pc = "add_block_push"
      /\ \A i \in 1..Len(new_block.transactions) :
            ~Mempool_contains(Mempool, new_block.transactions[i])
      /\ \A j \in 1..Len(blocks) : blocks[j] # new_block

\* C7: add_block_with_transactions leaves the pool as it was, whether it fails or
\* not: the pending set, len() and get_transactions are unchanged.
C7_Step ==
    (pc = "idle" /\ call'.op = "add_block_with_transactions") =>
        /\ UNCHANGED <<transactions, priority_queue>>
        /\ Pending' = Pending
        /\ Mempool_len(MempoolAfter) = Mempool_len(Mempool)
        /\ \A limit \in 0..BatchLimit :
            Mempool_get_transactions(MempoolAfter, limit) =
                Mempool_get_transactions(Mempool, limit)

C7_SuppliedBlockLeavesPool == [][C7_Step]_vars

\* a supplied block was appended that holds a transaction still pending
C7_Witness ==
    /\ call = Call("add_block_with_transactions", "Ok")
    /\ \E i \in 1..Len(Last(blocks).transactions) :
        Mempool_contains(Mempool, Last(blocks).transactions[i])

\* C8: add_transaction returns DuplicateTransaction exactly when a transaction of
\* the same content hash is in the pool; otherwise InvalidTransaction exactly when
\* the amount is 0 or the sender is the receiver; otherwise Ok.
C8_Step ==
    call'.op = "add_transaction" =>
        LET tx == arg'[1] IN
        call'.ret =
            IF \E t \in Pending : Transaction_hash(t) = Transaction_hash(tx)
            THEN "DuplicateTransaction"
            ELSE IF tx.amount = 0 \/ tx.sender = tx.receiver THEN "InvalidTransaction"
            ELSE "Ok"

C8_AdmitResult == [][C8_Step]_vars

\* a transaction was admitted a second time
C8_Witness ==
    /\ call = Call("add_transaction", "DuplicateTransaction")
    /\ Mempool_contains(Mempool, arg[1])

\* C9: an add_transaction that returns Ok grows len() by one and makes the
\* transaction contained; one that fails leaves both views, len() and contains()
\* as they were.
C9_Step ==
    call'.op = "add_transaction" =>
        LET tx == arg'[1] IN
        IF call'.ret = "Ok"
        THEN /\ Mempool_len(MempoolAfter) = Mempool_len(Mempool) + 1
             /\ Len(priority_queue') = Len(priority_queue) + 1
             /\ Mempool_contains(MempoolAfter, tx)
        ELSE /\ UNCHANGED <<transactions, priority_queue>>
             /\ Mempool_len(MempoolAfter) = Mempool_len(Mempool)
             /\ \A t \in PoolTxs : Mempool_contains(MempoolAfter, t) = Mempool_contains(Mempool, t)

C9_AdmitEffect == [][C9_Step]_vars

\* an invalid transaction was refused by a pool that holds two
C9_Witness ==
    /\ call = Call("add_transaction", "InvalidTransaction")
    /\ Mempool_len(Mempool) = 2
    /\ ~Mempool_contains(Mempool, arg[1])

\* C10: after any add_transaction, remove_transactions and clear calls the map and
\* the heap hold the same transactions, the heap each of them once, so len(),
\* contains() and get_transactions agree on what is pending.
C10_ViewsConsistent ==
    /\ SeqSet(priority_queue) = Pending
    /\ Len(priority_queue) = Cardinality(DOMAIN transactions)
    /\ \A h \in DOMAIN transactions : Transaction_hash(transactions[h]) = h
    /\ Len(Mempool_get_transactions(Mempool, Len(priority_queue))) = Mempool_len(Mempool)
    /\ \A t \in PoolTxs :
        Mempool_contains(Mempool, t) <=>
            t \in SeqSet(Mempool_get_transactions(Mempool, Len(priority_queue)))

\* one of three pending transactions was evicted
C10_Witness ==
    /\ call.op = "remove_transactions"
    /\ arg # <<>>
    /\ ~Mempool_contains(Mempool, arg[1])
    /\ Mempool_len(Mempool) = 2
    /\ Len(priority_queue) = 2

\* C11: get_transactions(limit) returns min(limit, len()) pending transactions, each
\* once, in ascending nonce order, and no pending transaction it leaves out has a
\* smaller nonce than one it returns, whatever order they were admitted in; the
\* pool is unchanged.
C11_Step ==
    call'.op = "get_transactions" =>
        LET limit == arg'[1]
            result == out'
        IN  /\ Len(result) = Min(limit, Mempool_len(Mempool))
            /\ Ascending(result)
            /\ SeqSet(result) \subseteq Pending
            /\ Cardinality(SeqSet(result)) = Len(result)
            /\ \A t \in Pending \ SeqSet(result) :
                    \A u \in SeqSet(result) : u.nonce <= t.nonce
            /\ UNCHANGED <<transactions, priority_queue>>

C11_SelectOrdered == [][C11_Step]_vars

\* two of three pending transactions were returned from a heap whose vector is not
\* in nonce order
C11_Witness ==
    /\ call.op = "get_transactions"
    /\ arg = <<2>>
    /\ Len(out) = 2
    /\ Mempool_len(Mempool) = 3
    /\ ~Ascending(priority_queue)

\* C12: remove_transactions takes every given transaction that is pending, matched
\* by content hash, out of the map and out of the heap, so contains() is false for
\* it and get_transactions no longer returns it; a given transaction that is not
\* pending is ignored, every other pending transaction stays, and removing the
\* same list again changes nothing.
C12_Step ==
    call'.op = "remove_transactions" =>
        LET given == {Transaction_hash(arg'[i]) : i \in 1..Len(arg')}
            kept == {t \in Pending : Transaction_hash(t) \notin given}
        IN  /\ \A i \in 1..Len(arg') :
                /\ ~Mempool_contains(MempoolAfter, arg'[i])
                /\ \A limit \in 0..(Len(priority_queue) + 1) :
                    arg'[i] \notin SeqSet(Mempool_get_transactions(MempoolAfter, limit))
            /\ Pending' = kept
            /\ SeqSet(priority_queue') = kept
            /\ Len(priority_queue') = Cardinality(kept)
            /\ Mempool_remove_transactions(MempoolAfter, arg') = MempoolAfter

C12_EvictRemovesGiven == [][C12_Step]_vars

\* two different transactions were evicted and two others are still pending
C12_Witness ==
    /\ call.op = "remove_transactions"
    /\ Len(arg) = 2
    /\ arg[1] # arg[2]
    /\ Mempool_len(Mempool) = 2
    /\ \A i \in 1..2 : ~Mempool_contains(Mempool, arg[i])

\* 2^64 / 2^difficulty - 1: the largest leading word with difficulty leading zero bits
LeadingZerosTarget(difficulty) == Pow2(Width) \div Pow2(difficulty) - 1

\* the first position of txs whose transaction fails validate(is_genesis), or 0
FirstFailing(txs, is_genesis) ==
    LET failing == {i \in 1..Len(txs) : Transaction_validate(txs[i], is_genesis) # "Ok"}
    IN  IF failing = {} THEN 0 ELSE CHOOSE i \in failing : \A j \in failing : i <= j

\* the check of Block::verify that fails first, in the order transactions, hash
\* integrity, proof of work
FirstFailedCheck(b, is_genesis) ==
    IF b.transactions = <<>> THEN "EmptyTransactions"
    ELSE IF FirstFailing(b.transactions, is_genesis) # 0
         THEN Transaction_validate(
                b.transactions[FirstFailing(b.transactions, is_genesis)], is_genesis)
    ELSE IF b.hash # Block_calculate_hash(b) THEN "InvalidHash"
    ELSE IF b.hash.num > LeadingZerosTarget(b.difficulty) THEN "InvalidProofOfWork"
    ELSE "Ok"

\* C13: Block::verify(is_genesis) returns the first check that fails, in this order:
\* EmptyTransactions for an empty sequence, the error of the first transaction
\* failing validate(is_genesis), InvalidHash when the stored hash is not the
\* recomputed one, InvalidProofOfWork when the stored hash misses the difficulty
\* target, and Ok otherwise; a constructed, unmined block whose hash misses the
\* target gets InvalidProofOfWork.
C13_Step ==
    call'.op = "verify" => call'.ret = FirstFailedCheck(new_block, arg'[1])

C13_VerifyReportsFirstFailure == [][C13_Step]_vars

\* mine() has just returned on the block and nothing was written to it since
JustSealed == pc = "idle" /\ call = Call("mine", "done")

TamperOps == {"set_transactions", "set_previous_hash", "set_nonce"}

\* C14 as stated: after a transaction, the previous_hash or the nonce of a sealed
\* block is changed to a different value, verify fails with InvalidHash, under
\* either flag, and no other check reports an error first.
C14_Original_Step ==
    (JustSealed /\ call'.op \in TamperOps /\ new_block'.transactions # <<>>) =>
        \A is_genesis \in BOOLEAN : Block_verify(new_block', is_genesis) = "InvalidHash"

C14_TamperGivesInvalidHash == [][C14_Original_Step]_vars

\* C14 (amended): after a transaction, the previous_hash or the nonce of a sealed
\* block is changed to a different value, verify fails: with InvalidHash when the
\* changed block has transactions and all of them pass validate(is_genesis), and
\* otherwise with the error of the transaction checks, which run first
\* (EmptyTransactions, or the error of the first failing transaction); it never
\* returns Ok or InvalidProofOfWork.
C14_Step ==
    (JustSealed /\ call'.op \in TamperOps) =>
        \A is_genesis \in BOOLEAN :
            LET verdict == Block_verify(new_block', is_genesis)
                txs == new_block'.transactions
            IN  /\ verdict \in {"InvalidHash", "EmptyTransactions", "InvalidAmount",
                                "SameSenderReceiver"}
                /\ verdict = "EmptyTransactions" <=> txs = <<>>
                /\ verdict = "InvalidHash" <=>
                        (txs # <<>> /\ FirstFailing(txs, is_genesis) = 0)
                /\ verdict \in {"InvalidAmount", "SameSenderReceiver"} =>
                        verdict = Transaction_validate(
                                    txs[FirstFailing(txs, is_genesis)], is_genesis)

C14_TamperMakesVerifyFail == [][C14_Step]_vars

\* the nonce of a block mined past nonce 0 was changed: its stored hash still meets
\* the target and is the hash of the block under the nonce it was mined to
C14_Witness ==
    /\ pc = "tampered"
    /\ call.op = "set_nonce"
    /\ Block_has_valid_proof(new_block)
    /\ \E n \in 1..(Pow2(NonceWidth) - 1) :
        /\ n # new_block.nonce
        /\ new_block.hash = Block_calculate_hash([new_block EXCEPT !.nonce = n])
    /\ Block_verify(new_block, FALSE) = "InvalidHash"

\* C15: whenever mine() returns on a block, at any difficulty, the block is sealed:
\* its stored hash is the hash of its current fields and has difficulty leading
\* zero bits, so has_valid_proof() is true and, if the block has transactions that
\* all pass the strict validation, verify(false) returns Ok.
C15_Step ==
    (call'.op = "mine" /\ call'.ret = "done") =>
        /\ new_block'.hash = Block_calculate_hash(new_block')
        /\ new_block'.hash.num <= LeadingZerosTarget(new_block'.difficulty)
        /\ Block_has_valid_proof(new_block')
        /\ (new_block'.transactions # <<>>
                /\ FirstFailing(new_block'.transactions, FALSE) = 0) =>
            Block_verify(new_block', FALSE) = "Ok"

C15_MinedBlockIsSealed == [][C15_Step]_vars

\* C16: at every difficulty d, 0 and d >= 64 included, the target of mine() and
\* has_valid_proof() is 2^64 / 2^d - 1: computing it never overflows or faults,
\* mine() stops on and verify accepts only a hash with at least d leading zero
\* bits, and verify refuses for proof of work only a hash with fewer.
C16_TargetIsLeadingZeros ==
    /\ call.ret \notin {"panicked", "Panic"}
    /\ (call.op = "mine" /\ call.ret = "done") =>
            new_block.hash.num <= LeadingZerosTarget(new_block.difficulty)
    /\ (call.op = "verify" /\ call.ret = "Ok") =>
            new_block.hash.num <= LeadingZerosTarget(new_block.difficulty)
    /\ (call.op = "verify" /\ call.ret = "InvalidProofOfWork") =>
            new_block.hash.num > LeadingZerosTarget(new_block.difficulty)

\* the k-th check of the walk of Chain::verify over bs: the previous_hash of the
\* first block, the first block as genesis, then for every later block its link
\* and the block itself, strictly
WalkCheck(bs, k) ==
    LET i == (k + 1) \div 2 IN
    IF k = 1 THEN (IF bs[1].previous_hash = ZeroHash THEN "Ok" ELSE "InvalidGenesis")
    ELSE IF k = 2 THEN Block_verify(bs[1], TRUE)
    ELSE IF k % 2 = 1
         THEN (IF bs[i].previous_hash = bs[i - 1].hash THEN "Ok" ELSE "InvalidBlockLink")
         ELSE Block_verify(bs[i], FALSE)

\* the first check of the walk that fails
FirstWalkFailure(bs) ==
    IF bs = <<>> THEN "EmptyChain"
    ELSE LET failing == {k \in 1..(2 * Len(bs)) : WalkCheck(bs, k) # "Ok"} IN
         IF failing = {} THEN "Ok"
         ELSE WalkCheck(bs, CHOOSE k \in failing : \A j \in failing : k <= j)

\* C17: Chain::verify returns the first failure of a fixed walk: EmptyChain without
\* blocks; InvalidGenesis when the first block's previous_hash is not zero, before
\* that block is verified; the error of the first block verified as genesis; then
\* for each later block in order InvalidBlockLink when its previous_hash is not
\* the hash of the block before it, else its error under strict verification; Ok
\* when nothing fails. A first block given a non-zero previous_hash yields
\* InvalidGenesis, a pushed block not linked to its predecessor InvalidBlockLink.
C17_VerifyWalkOrder ==
    pc \in {"idle", "tampered"} =>
        /\ Chain_verify(blocks) = FirstWalkFailure(blocks)
        /\ call.op = "clear_blocks" => Chain_verify(blocks) = "EmptyChain"
        /\ call.op = "set_genesis_previous_hash" => Chain_verify(blocks) = "InvalidGenesis"
        /\ (call.op = "push_block"
                /\ Last(blocks).previous_hash # blocks[Len(blocks) - 1].hash) =>
            Chain_verify(blocks) = "InvalidBlockLink"

\* the first block of a chain of three was given a non-zero previous_hash, which
\* also makes its stored hash stale
C17_Witness ==
    /\ pc = "tampered"
    /\ call.op = "set_genesis_previous_hash"
    /\ Len(blocks) = 3
    /\ Block_verify(blocks[1], TRUE) = "InvalidHash"
    /\ Chain_verify(blocks) = "InvalidGenesis"

\* C18: on a chain built by the public operations, putting a different transaction
\* sequence in any one block, the genesis block included, without mining it again
\* makes Chain::verify return an error.
C18_TamperedChainFails ==
    (pc = "tampered" /\ call.op = "set_transactions") => Chain_verify(blocks) \in Errors

\* the second of three blocks was given another valid transaction: its stored
\* hash still meets the target and the chain is refused for the stale hash
C18_Witness ==
    /\ pc = "tampered"
    /\ call.op = "set_transactions"
    /\ arg = <<2>>
    /\ Len(blocks) = 3
    /\ FirstFailing(blocks[2].transactions, FALSE) = 0
    /\ Block_has_valid_proof(blocks[2])
    /\ Chain_verify(blocks) = "InvalidHash"

\* C19: validate(is_genesis) depends on the transaction and the flag only and
\* leaves the transaction as it is: InvalidAmount exactly when the amount is 0,
\* under either flag and also when the sender is the receiver; SameSenderReceiver
\* exactly when the amount is positive, the sender is the receiver and is_genesis
\* is false; Ok otherwise.
C19_Step ==
    call'.op = "validate" =>
        LET tx == arg'[1]
            is_genesis == arg'[2]
            same == tx.amount > 0 /\ tx.sender = tx.receiver /\ ~is_genesis
        IN  /\ tx = arg[1]
            /\ call'.ret \in {"InvalidAmount", "SameSenderReceiver", "Ok"}
            /\ call'.ret = "InvalidAmount" <=> tx.amount = 0
            /\ call'.ret = "SameSenderReceiver" <=> same
            /\ call'.ret = "Ok" <=> (tx.amount # 0 /\ ~same)
            /\ (call.op = "validate" /\ arg[2] = is_genesis) => call'.ret = call.ret

C19_ValidateResult == [][C19_Step]_vars

\* a transaction of amount 0 from a sender to itself was refused for its amount
\* under the strict rule
C19_Witness ==
    /\ call = Call("validate", "InvalidAmount")
    /\ arg[1].sender = arg[1].receiver
    /\ arg[2] = FALSE

\* C20: Block::new on an empty transaction sequence returns EmptyTransactions and
\* no block; on a non-empty one it returns a block that holds the given
\* transactions, previous_hash and difficulty, nonce 0, and as its hash the hash
\* of its own fields.
C20_Step ==
    call'.op = "Block::new" =>
        LET txs == arg'[1]
            previous_hash == arg'[2]
            difficulty == arg'[3]
        IN  IF txs = <<>>
            THEN /\ call'.ret = "EmptyTransactions"
                 /\ pc' = "no_block"
                 /\ new_block' = NoBlock
            ELSE /\ call'.ret = "Ok"
                 /\ pc' = "idle"
                 /\ new_block'.transactions = txs
                 /\ new_block'.previous_hash = previous_hash
                 /\ new_block'.difficulty = difficulty
                 /\ new_block'.nonce = 0
                 /\ new_block'.hash = Block_calculate_hash(new_block')
                 /\ new_block'.hash # ZeroHash

C20_BlockNewResult == [][C20_Step]_vars

\* a block of two transactions was constructed on the previous hash [1; 32]
C20_Witness ==
    /\ call = Call("Block::new", "Ok")
    /\ Len(new_block.transactions) = 2
    /\ new_block.previous_hash = OnesHash
    /\ new_block.nonce = 0
    /\ new_block.hash = Block_calculate_hash(new_block)

\* C21: current_difficulty is set by Chain::new and never changes, and every block
\* of the chain, the genesis block and the blocks add_block and
\* add_block_with_transactions append, has that difficulty.
C21_Step ==
    /\ current_difficulty' = current_difficulty
    /\ \A i \in 1..Len(blocks) : blocks[i].difficulty = current_difficulty
    /\ \A i \in 1..Len(blocks') : blocks'[i].difficulty = current_difficulty'

C21_DifficultyFixed == [][C21_Step]_vars

\* a chain not of difficulty 1 holds the genesis block, a block add_block built
\* from the pool and a block add_block_with_transactions has just appended
C21_Witness ==
    /\ call = Call("add_block_with_transactions", "Ok")
    /\ Len(blocks) = 3
    /\ current_difficulty # 1
    /\ \E i \in 1..Len(blocks[2].transactions) : blocks[2].transactions[i].nonce = 5
    /\ \A i \in 1..3 : blocks[i].difficulty = current_difficulty

\* C22: mine() changes only the nonce and the stored hash, and stops at the first
\* nonce, counting up from the block's nonce one at a time and wrapping at the end
\* of the nonce range, whose hash meets the target; so on a sealed block it
\* changes nothing.
C22_Step ==
    (call'.op = "mine" /\ call'.ret = "done") =>
        LET b == new_block
            mined == new_block'
            AtNonce(k) == [b EXCEPT !.nonce = (b.nonce + k) % Pow2(NonceWidth)]
            Meets(k) ==
                Block_calculate_hash(AtNonce(k)).num <= LeadingZerosTarget(b.difficulty)
        IN  /\ mined.timestamp = b.timestamp
            /\ mined.transactions = b.transactions
            /\ mined.previous_hash = b.previous_hash
            /\ mined.difficulty = b.difficulty
            /\ \E k \in 0..(Pow2(NonceWidth) - 1) :
                /\ Meets(k)
                /\ \A j \in 0..(k - 1) : ~Meets(j)
                /\ mined.nonce = AtNonce(k).nonce
                /\ mined.hash = Block_calculate_hash(AtNonce(k))
            /\ (b.hash = Block_calculate_hash(b) /\ Meets(0)) =>
                    (mined.nonce = b.nonce /\ mined.hash = b.hash)

C22_MineStopsAtFirstNonce == [][C22_Step]_vars

\* C23: mine() never fails: on every block, at every difficulty, its loop ends and
\* leaves the block sealed, its stored hash the hash of its fields; so no call
\* that mines ends in a panic or runs for ever.
C23_MineAlwaysReturns ==
    call.op = "mine" =>
        /\ call.ret = "done"
        /\ pc \notin {"panicked", "hung"}
        /\ new_block.hash = Block_calculate_hash(new_block)

\* the position of t in the sequence s
PositionIn(s, t) == CHOOSE i \in 1..Len(s) : s[i] = t

\* C24: two pending transactions of equal nonce are returned by get_transactions
\* in the same relative order for as long as both stay in the pool, whatever is
\* admitted or evicted in between.
C24_Step ==
    LET before == Mempool_get_transactions(Mempool, Len(priority_queue))
        after == Mempool_get_transactions(MempoolAfter, Len(priority_queue'))
    IN  \A t, u \in Pending \cap Pending' :
            (t # u /\ t.nonce = u.nonce) =>
                (PositionIn(before, t) < PositionIn(before, u)
                    <=> PositionIn(after, t) < PositionIn(after, u))

C24_TieOrderStable == [][C24_Step]_vars

\* C25: a transaction that a block of the chain holds is refused when it is
\* submitted again, so after any submit_transaction and add_block calls no
\* transaction is in more than one block of the chain.
C25_NoReplay ==
    \A i, j \in 1..Len(blocks) :
        i < j => SeqSet(blocks[i].transactions) \cap SeqSet(blocks[j].transactions) = {}

\* C26: under submit_transaction, add_block and add_block_with_transactions the
\* chain only grows at its end: no call shortens it, each call lengthens it by
\* at most one block, submit_transaction leaves it as it is, and a block at an
\* index stays there with every field unchanged.
C26_Step ==
    /\ Len(blocks') >= Len(blocks)
    /\ Len(blocks') <= Len(blocks) + 1
    /\ call'.op = "submit_transaction" => blocks' = blocks
    /\ \A i \in 1..Len(blocks) : blocks'[i] = blocks[i]

C26_AppendOnly == [][C26_Step]_vars

\* submit_transaction has returned on a chain of three linked blocks, one of
\* the appended blocks holding the nonce 5 transaction
C26_Witness ==
    /\ call = Call("submit_transaction", "Ok")
    /\ Len(blocks) = 3
    /\ \E i \in 2..3 : \E k \in 1..Len(blocks[i].transactions) :
            blocks[i].transactions[k].nonce = 5
    /\ blocks[3].previous_hash = blocks[2].hash

\* C27: in every state the public operations reach, every pending transaction
\* passes validate(false) and there is at least one block; so add_block never
\* returns an error and, on a pool that is not empty, appends a block.
C27_Step ==
    /\ pc \in {"idle", "add_block_push"} =>
        /\ \A t \in Pending :
            /\ Transaction_validate(t, FALSE) = "Ok"
            /\ t.amount > 0
            /\ t.sender # t.receiver
        /\ blocks # <<>>
    /\ call'.op = "add_block" => call'.ret \in {"Ok", "Running"}
    /\ (pc = "idle" /\ call'.op = "add_block" /\ ~Mempool_is_empty(Mempool)) =>
            pc' = "add_block_push"
    /\ pc = "add_block_push" =>
        /\ blocks' = Append(blocks, new_block)
        /\ call' = Call("add_block", "Ok")

C27_AddBlockNeverFails == [][C27_Step]_vars

\* add_block has returned Ok: it appended a block of the two pending
\* transactions to the genesis block and left the pool empty
C27_Witness ==
    /\ call = Call("add_block", "Ok")
    /\ pc = "idle"
    /\ Len(blocks) = 2
    /\ Len(blocks[2].transactions) = 2
    /\ Mempool_is_empty(Mempool)

====
